---- MODULE Spec2Model ----
(***************************************************************************)
(* DNS-over-HTTPS / DNS-over-TLS client connection set-up of trust-dns:    *)
(* HttpsClientConnectionBuilder, HttpsClientConnection (ClientConnection), *)
(* new_tls_stream and the RuntimeProvider they run on.                     *)
(***************************************************************************)
EXTENDS Integers, Sequences, FiniteSets, TLC

\* ---- bounds of the model -------------------------------------------------
MaxBuilders == 1
MaxConns == 2
MaxAttempts == 2
MaxCa == 2
MaxMsgs == 2
MaxStreams == 1

\* ---- input domains -------------------------------------------------------
Addrs == {"203.0.113.1:443", "198.51.100.7:853"}
Names == {"dns.example", "other.example"}
Issuers == {"rootA", "rootB"}
Certificates ==
    {[subject |-> "rootA", parses |-> TRUE], [subject |-> "junk", parses |-> FALSE]}
Connectors == {"default", "reject_all"}
Signers == {"None", "sig0"}
ServerCerts == [identity : Names, issuer : Issuers]
NoCert == [identity |-> "-", issuer |-> "-"]

VARIABLES
    builders,       \* every HttpsClientConnectionBuilder created so far
    badAdds,        \* builders that were handed a certificate that does not parse
    conns,          \* every HttpsClientConnection value (built or cloned)
    origin,         \* how conns[i] came to be (the call and its arguments)
    attempts,       \* every connection attempt (future and send handle)
    nextArc,        \* allocation counter of Arc<ClientConfig>
    joinHandles,    \* join handles the spawner still holds
    spawnerErrors   \* background-task errors the spawner has observed

vars == <<builders, badAdds, conns, origin, attempts, nextArc, joinHandles, spawnerErrors>>

\* ---- rustls::ClientConfig ------------------------------------------------
ClientConfig_new == [root_store |-> <<>>]

WellFormed(store) == \A i \in DOMAIN store : store[i].parses

RECURSIVE SeqsUpTo(_, _)
SeqsUpTo(S, n) ==
    IF n = 0 THEN {<<>>}
    ELSE LET shorter == SeqsUpTo(S, n - 1)
         IN  shorter \cup {Append(s, x) : s \in {t \in shorter : Len(t) = n - 1}, x \in S}

\* configurations a caller can hand to with_client_config
ClientConfigs ==
    {[root_store |-> s] : s \in SeqsUpTo({c \in Certificates : c.parses}, 1)}

\* ---- HttpsClientConnectionBuilder ----------------------------------------
HttpsClientConnectionBuilder_new(connector) ==
    [st |-> "staged", client_config |-> ClientConfig_new, connector |-> connector]

with_client_config(client_config, connector) ==
    [st |-> "staged", client_config |-> client_config, connector |-> connector]

default == [st |-> "staged", client_config |-> ClientConfig_new, connector |-> "default"]

HttpsClientConnection_new == default

with_connector(connector) == HttpsClientConnectionBuilder_new(connector)

add_ca_keep_going(builder, ca) ==
    IF ca.parses
    THEN [builder EXCEPT !.client_config.root_store = Append(@, ca)]
    ELSE builder

\* root_store.add(&ca).expect("bad certificate!")
add_ca(builder, ca) ==
    IF ca.parses
    THEN [builder EXCEPT !.client_config.root_store = Append(@, ca)]
    ELSE [builder EXCEPT !.st = "aborted"]

build_fresh_config(builder, name_server, dns_name) ==
    [name_server |-> name_server, dns_name |-> dns_name,
     client_config |-> ClientConfig_new, connector |-> builder.connector]

build(builder, name_server, dns_name) ==
    [name_server |-> name_server, dns_name |-> dns_name,
     client_config |-> builder.client_config, connector |-> builder.connector]

moved_by_ref(builder) == builder

\* build takes self by value: the builder is moved out of
moved(builder) == [builder EXCEPT !.st = "consumed"]

\* #[derive(Clone)]
clone(conn) ==
    [name_server |-> conn.name_server, dns_name |-> conn.dns_name,
     client_config |-> conn.client_config, connector |-> conn.connector]

\* ---- actions of the builder ----------------------------------------------
Untouched == UNCHANGED <<attempts, nextArc, joinHandles, spawnerErrors>>

New ==
    /\ Len(builders) < MaxBuilders
    /\ builders' = Append(builders, HttpsClientConnection_new)
    /\ UNCHANGED <<badAdds, conns, origin>>
    /\ Untouched

WithConnector ==
    /\ Len(builders) < MaxBuilders
    /\ \E connector \in Connectors :
          builders' = Append(builders, with_connector(connector))
    /\ UNCHANGED <<badAdds, conns, origin>>
    /\ Untouched

WithClientConfig ==
    /\ Len(builders) < MaxBuilders
    /\ \E client_config \in ClientConfigs, connector \in Connectors :
          builders' = Append(builders, with_client_config(client_config, connector))
    /\ UNCHANGED <<badAdds, conns, origin>>
    /\ Untouched

AddCa ==
    /\ \E b \in DOMAIN builders, ca \in Certificates :
          /\ builders[b].st = "staged"
          /\ Len(builders[b].client_config.root_store) < MaxCa
          /\ builders' = [builders EXCEPT ![b] = add_ca(@, ca)]
          /\ badAdds' = IF ca.parses THEN badAdds ELSE badAdds \cup {b}
    /\ UNCHANGED <<conns, origin>>
    /\ Untouched

Build ==
    /\ Len(conns) < MaxConns
    /\ \E b \in DOMAIN builders, name_server \in Addrs, dns_name \in Names :
          /\ builders[b].st = "staged"
          /\ conns' = Append(conns, build(builders[b], name_server, dns_name))
          /\ origin' = Append(origin, [op |-> "build", src |-> b,
                                       name_server |-> name_server, dns_name |-> dns_name])
          /\ builders' = [builders EXCEPT ![b] = moved(@)]
    /\ UNCHANGED badAdds
    /\ Untouched

CloneConn ==
    /\ Len(conns) < MaxConns
    /\ \E c \in DOMAIN conns :
          /\ conns' = Append(conns, clone(conns[c]))
          /\ origin' = Append(origin, [op |-> "clone", src |-> c,
                                       name_server |-> conns[c].name_server,
                                       dns_name |-> conns[c].dns_name])
    /\ UNCHANGED <<builders, badAdds>>
    /\ Untouched

\* ---- connection attempts --------------------------------------------------
\* trust anchors of the platform TLS engine used by TlsClientStreamBuilder::new
SystemConfig == [root_store |-> <<[subject |-> "rootA", parses |-> TRUE]>>]

\* the (future, send handle) pair as the stream builders hand it out:
\* nothing connected, nothing spawned, nothing buffered
Pending(kind, addr, dns_name, client_config, arc, connector) ==
    [kind |-> kind, conn |-> 0, signer |-> "None",
     addr |-> addr, dns_name |-> dns_name,
     client_config |-> client_config, arc |-> arc, connector |-> connector,
     phase |-> "tcp_connecting", tcp |-> "pending", cert |-> NoCert,
     socket |-> FALSE, bg |-> "none",
     queue |-> <<>>, sent |-> <<>>, observed |-> <<>>, refused |-> 0, early |-> 0]

HttpsClientStreamBuilder_with_client_config(connector, client_config, arc) ==
    [connector |-> connector, client_config |-> client_config, arc |-> arc]

HttpsClientStreamBuilder_build(https_builder, name_server, dns_name) ==
    Pending("https", name_server, dns_name,
            https_builder.client_config, https_builder.arc, https_builder.connector)

TlsClientStreamBuilder_new(runtime) ==
    [connector |-> runtime, client_config |-> SystemConfig, arc |-> 0]

TlsClientStreamBuilder_build(tls_builder, socket_addr, dns_name) ==
    Pending("tls", socket_addr, dns_name,
            tls_builder.client_config, tls_builder.arc, tls_builder.connector)

new_stream_eager_spawn(conn, signer, arc) ==
    LET https_builder ==
            HttpsClientStreamBuilder_with_client_config(conn.connector, conn.client_config, arc)
    IN  [HttpsClientStreamBuilder_build(https_builder, conn.name_server, conn.dns_name)
            EXCEPT !.signer = signer, !.bg = "running"]

new_stream_system_roots(conn, signer, arc) ==
    LET https_builder ==
            HttpsClientStreamBuilder_with_client_config(conn.connector, SystemConfig, arc)
    IN  [HttpsClientStreamBuilder_build(https_builder, conn.name_server, conn.dns_name)
            EXCEPT !.signer = signer]

new_stream_shared_config(conn, signer, arc) ==
    LET https_builder ==
            HttpsClientStreamBuilder_with_client_config(conn.connector, conn.client_config, 1)
    IN  [HttpsClientStreamBuilder_build(https_builder, conn.name_server, conn.dns_name)
            EXCEPT !.signer = signer]

new_stream_signed(conn, signer, arc) ==
    LET https_builder ==
            HttpsClientStreamBuilder_with_client_config(conn.connector, conn.client_config, arc)
    IN  [HttpsClientStreamBuilder_build(https_builder, conn.name_server,
                IF signer = "None" THEN conn.dns_name ELSE signer)
            EXCEPT !.signer = signer]

\* ClientConnection::new_stream of HttpsClientConnection; arc is the
\* allocation made by Arc::new(self.client_config.clone())
new_stream(conn, signer, arc) ==
    LET https_builder ==
            HttpsClientStreamBuilder_with_client_config(conn.connector, conn.client_config, arc)
    IN  [HttpsClientStreamBuilder_build(https_builder, conn.name_server, conn.dns_name)
            EXCEPT !.signer = signer]

new_tls_stream_eager_spawn(socket_addr, dns_name, runtime) ==
    LET tls_builder == TlsClientStreamBuilder_new(runtime)
    IN  [TlsClientStreamBuilder_build(tls_builder, socket_addr, dns_name)
            EXCEPT !.bg = "running"]

new_tls_stream(socket_addr, dns_name, runtime) ==
    LET tls_builder == TlsClientStreamBuilder_new(runtime)
    IN  TlsClientStreamBuilder_build(tls_builder, socket_addr, dns_name)

\* RuntimeProvider::connect_tcp: io::Result; reachable says whether the
\* network lets the connection through
connect_tcp(connector, reachable) ==
    IF connector = "reject_all" \/ ~reachable THEN "refused" ELSE "ok"

\* certificate verification of the TLS engine
verify(cert, dns_name, client_config) ==
    /\ cert.identity = dns_name
    /\ \E i \in DOMAIN client_config.root_store :
          client_config.root_store[i].subject = cert.issuer

spawn_bg_keep_handle(handles, task) == handles \cup {task}

\* TokioRuntime::spawn_bg: let _join = tokio::spawn(future); the handle is
\* dropped on return, the spawner holds the same handles as before
spawn_bg(handles, task) == handles

\* the receiving end of the send handle is owned by the pending future and
\* then by the background task
ReceiverAlive(a) ==
    \/ a.phase \in {"tcp_connecting", "tls_handshaking"}
    \/ a.phase = "connected" /\ a.bg = "running"

Resolved(a) == a.phase \in {"connected", "transport_error", "auth_error"}

BuilderUntouched == UNCHANGED <<builders, badAdds, conns, origin>>

NewStream ==
    /\ Len(attempts) < MaxAttempts
    /\ \E c \in DOMAIN conns, signer \in Signers :
          attempts' = Append(attempts,
                             [new_stream(conns[c], signer, nextArc) EXCEPT !.conn = c])
    /\ nextArc' = nextArc + 1
    /\ UNCHANGED <<joinHandles, spawnerErrors>>
    /\ BuilderUntouched

NewTlsStream ==
    /\ Len(attempts) < MaxStreams
    /\ \E socket_addr \in Addrs, dns_name \in Names, runtime \in Connectors :
          attempts' = Append(attempts, new_tls_stream(socket_addr, dns_name, runtime))
    /\ UNCHANGED <<nextArc, joinHandles, spawnerErrors>>
    /\ BuilderUntouched

\* the future's first stage: TCP connect through the connector
connect_step(a, reachable) ==
    LET r == connect_tcp(a.connector, reachable)
    IN  IF r = "ok"
        THEN [a EXCEPT !.tcp = r, !.phase = "tls_handshaking", !.socket = TRUE]
        ELSE [a EXCEPT !.tcp = r, !.phase = "transport_error"]

\* the future's second stage: handshake against dns_name, then the spawn of
\* the background task and the resolution of the future
handshake_step(a, cert) ==
    IF verify(cert, a.dns_name, a.client_config)
    THEN [a EXCEPT !.cert = cert, !.phase = "connected", !.bg = "running",
                   !.early = Len(a.sent)]
    ELSE [a EXCEPT !.cert = cert, !.phase = "auth_error", !.socket = FALSE]

\* the pending future is dropped: what it owns is released
drop_step(a) == [a EXCEPT !.phase = "dropped", !.socket = FALSE]

ConnectTcp ==
    /\ \E i \in DOMAIN attempts, reachable \in BOOLEAN :
          /\ attempts[i].phase = "tcp_connecting"
          /\ attempts' = [attempts EXCEPT ![i] = connect_step(@, reachable)]
    /\ UNCHANGED <<nextArc, joinHandles, spawnerErrors>>
    /\ BuilderUntouched

TlsHandshake ==
    /\ \E i \in DOMAIN attempts, cert \in ServerCerts :
          /\ attempts[i].phase = "tls_handshaking"
          /\ attempts' = [attempts EXCEPT ![i] = handshake_step(@, cert)]
          /\ joinHandles' = IF handshake_step(attempts[i], cert).bg = "running"
                            THEN spawn_bg(joinHandles, i) ELSE joinHandles
    /\ UNCHANGED <<nextArc, spawnerErrors>>
    /\ BuilderUntouched

DropFuture ==
    /\ \E i \in DOMAIN attempts :
          /\ attempts[i].phase \in {"tcp_connecting", "tls_handshaking"}
          /\ attempts' = [attempts EXCEPT ![i] = drop_step(@)]
    /\ UNCHANGED <<nextArc, joinHandles, spawnerErrors>>
    /\ BuilderUntouched

\* send on the handle: buffered while the receiving end lives, an error after
\* messages are told apart by their place among the sends of their handle
NextMsg(a) == Len(a.sent) + a.refused + 1

send(a, m) ==
    IF ReceiverAlive(a)
    THEN [a EXCEPT !.queue = Append(@, m), !.sent = Append(@, m)]
    ELSE [a EXCEPT !.refused = @ + 1]

drain_lifo(a) ==
    [a EXCEPT !.observed = Append(@, a.queue[Len(a.queue)]),
              !.queue = SubSeq(a.queue, 1, Len(a.queue) - 1)]

\* the stream takes the oldest buffered message and writes it out
drain(a) ==
    [a EXCEPT !.observed = Append(@, Head(a.queue)), !.queue = Tail(a.queue)]

Enqueue ==
    /\ \E i \in DOMAIN attempts :
          /\ attempts[i].kind = "tls" \/ attempts[i].phase = "connected"
          /\ Len(attempts[i].sent) + attempts[i].refused < MaxMsgs
          /\ attempts' = [attempts EXCEPT ![i] = send(@, NextMsg(@))]
    /\ UNCHANGED <<nextArc, joinHandles, spawnerErrors>>
    /\ BuilderUntouched

BgDrain ==
    /\ \E i \in DOMAIN attempts :
          /\ attempts[i].phase = "connected"
          /\ attempts[i].bg = "running"
          /\ attempts[i].queue # <<>>
          /\ attempts' = [attempts EXCEPT ![i] = drain(@)]
    /\ UNCHANGED <<nextArc, joinHandles, spawnerErrors>>
    /\ BuilderUntouched

\* the background task ends with Err(ProtoError)
BgFail ==
    /\ \E i \in DOMAIN attempts :
          /\ attempts[i].bg = "running"
          /\ attempts' = [attempts EXCEPT ![i].bg = "failed", ![i].socket = FALSE]
          /\ spawnerErrors' = IF i \in joinHandles
                              THEN spawnerErrors \cup {i} ELSE spawnerErrors
    /\ UNCHANGED <<nextArc, joinHandles>>
    /\ BuilderUntouched

Init ==
    /\ builders = <<>>
    /\ badAdds = {}
    /\ conns = <<>>
    /\ origin = <<>>
    /\ attempts = <<>>
    /\ nextArc = 1
    /\ joinHandles = {}
    /\ spawnerErrors = {}

Next ==
    \/ New \/ WithConnector \/ WithClientConfig \/ AddCa \/ Build \/ CloneConn
    \/ NewStream

Spec == Init /\ [][Next]_vars

\* one HttpsClientConnection as build leaves it, then its connection attempts
InitConnect ==
    /\ builders = <<>>
    /\ badAdds = {}
    /\ \E name_server \in Addrs, dns_name \in Names, connector \in Connectors,
          store \in SeqsUpTo({c \in Certificates : c.parses}, MaxCa) :
          /\ conns = <<build(with_client_config([root_store |-> store], connector),
                             name_server, dns_name)>>
          /\ origin = <<[op |-> "build", src |-> 0,
                         name_server |-> name_server, dns_name |-> dns_name]>>
    /\ attempts = <<>>
    /\ nextArc = 1
    /\ joinHandles = {}
    /\ spawnerErrors = {}

NextConnect == NewStream \/ ConnectTcp \/ TlsHandshake \/ DropFuture

SpecConnect == InitConnect /\ [][NextConnect]_vars

NextStream ==
    \/ NewTlsStream \/ ConnectTcp \/ TlsHandshake \/ DropFuture
    \/ Enqueue \/ BgDrain \/ BgFail

SpecStream == Init /\ [][NextStream]_vars

\* the runtime keeps polling a spawned task that has buffered messages to write
SpecStreamFair == SpecStream /\ WF_vars(BgDrain)

\* ---- helpers of the properties --------------------------------------------
IsPrefix(p, q) == Len(p) <= Len(q) /\ SubSeq(q, 1, Len(p)) = p

Trusts(client_config, issuer) ==
    \E k \in DOMAIN client_config.root_store :
        client_config.root_store[k].subject = issuer

\* what a connection attempt starts from, without the bookkeeping of the call
Target(a) ==
    [addr |-> a.addr, dns_name |-> a.dns_name,
     client_config |-> a.client_config, connector |-> a.connector]

\* ---- C1 -------------------------------------------------------------------
\* C1: through a connector that rejects every connect_tcp, an attempt of
\* new_stream can only be pending, dropped or resolved to a transport error,
\* and no background task is spawned for it at any point.
C1_RejectedConnectNeverSpawns ==
    \A i \in DOMAIN attempts :
        attempts[i].connector = "reject_all" =>
            /\ attempts[i].phase \in {"tcp_connecting", "dropped", "transport_error"}
            /\ attempts[i].tcp \in {"pending", "refused"}
            /\ Resolved(attempts[i]) => attempts[i].phase = "transport_error"
            /\ attempts[i].bg = "none"
            /\ ~attempts[i].socket
            /\ i \notin joinHandles

C1_Witness ==
    \E i \in DOMAIN attempts :
        /\ attempts[i].kind = "https"
        /\ attempts[i].connector = "reject_all"
        /\ attempts[i].tcp = "refused"
        /\ attempts[i].phase = "transport_error"

\* ---- C2 -------------------------------------------------------------------
\* C2: after a successful TCP connect the future resolves to a usable stream
\* only if the server certificate's identity is the connection's dns_name and
\* its issuer is in the connection's trust store; a certificate that fails
\* either test gives an authentication error, and that outcome arises only
\* after a successful connect while a transport error arises only from a
\* refused one.
C2_AuthenticationDecidesOutcome ==
    \A i \in DOMAIN attempts :
        LET a == attempts[i]
            conn == conns[a.conn]
        IN  a.kind = "https" =>
              /\ a.phase = "connected" =>
                    /\ a.tcp = "ok"
                    /\ a.cert.identity = conn.dns_name
                    /\ Trusts(conn.client_config, a.cert.issuer)
              /\ (a.tcp = "ok" /\ a.cert # NoCert
                    /\ ~(a.cert.identity = conn.dns_name
                         /\ Trusts(conn.client_config, a.cert.issuer)))
                    => a.phase = "auth_error"
              /\ a.phase = "auth_error" => a.tcp = "ok" /\ a.cert # NoCert
              /\ a.phase = "transport_error" => a.tcp = "refused" /\ a.cert = NoCert

C2_Witness ==
    \E i \in DOMAIN attempts :
        /\ attempts[i].kind = "https"
        /\ attempts[i].dns_name = "dns.example"
        /\ attempts[i].cert.identity = "other.example"
        /\ Trusts(attempts[i].client_config, attempts[i].cert.issuer)
        /\ attempts[i].phase = "auth_error"

\* ---- C3 -------------------------------------------------------------------
\* C3: the send handle accepts messages while the future is pending and
\* buffers them; the stream observes messages only once connected, in the
\* order they were enqueued on the handle, none lost and none twice; once
\* connected, the stream comes to observe every message enqueued so far
\* unless its background task fails first.
FifoPerHandle ==
    \A i \in DOMAIN attempts :
        LET a == attempts[i]
        IN  /\ IsPrefix(a.observed, a.sent)
            /\ ReceiverAlive(a) => a.observed \o a.queue = a.sent
            /\ a.phase \in {"tcp_connecting", "tls_handshaking"} =>
                  /\ a.queue = a.sent
                  /\ a.refused = 0
            /\ a.phase # "connected" => a.observed = <<>>
            /\ a.early <= Len(a.sent)

Delivered(i) ==
    /\ i \in DOMAIN attempts
    /\ \/ attempts[i].observed = attempts[i].sent
       \/ attempts[i].bg = "failed"

Connected(i) ==
    /\ i \in DOMAIN attempts
    /\ attempts[i].phase = "connected"

C4_SpawnOnlyWhenEstablished ==
    \A i \in DOMAIN attempts :
        LET a == attempts[i]
        IN  /\ a.bg # "none" =>
                  /\ a.tcp = "ok"
                  /\ a.cert # NoCert
                  /\ verify(a.cert, a.dns_name, a.client_config)
                  /\ a.phase = "connected"
            /\ a.phase = "dropped" => a.bg = "none" /\ ~a.socket
            /\ a.socket => a.tcp = "ok"

C4_Witness ==
    \E i \in DOMAIN attempts :
        /\ attempts[i].kind = "tls"
        /\ attempts[i].tcp = "ok"
        /\ attempts[i].phase = "dropped"

\* ---- C5 -------------------------------------------------------------------
\* C5: spawn_bg leaves the spawner without a join handle and the spawner
\* never observes a task's error; when the task fails the resolved outcome
\* of the attempt stays as it was, and from then on no send on the handle is
\* accepted: each one is refused.
C5_FireAndForget ==
    /\ [](joinHandles = {} /\ spawnerErrors = {})
    /\ [][\A i \in DOMAIN attempts :
             /\ (attempts[i].bg = "running" /\ attempts'[i].bg = "failed") =>
                   /\ attempts'[i].phase = attempts[i].phase
                   /\ attempts'[i].sent = attempts[i].sent
                   /\ attempts'[i].refused = attempts[i].refused
             /\ attempts[i].bg = "failed" =>
                   /\ attempts'[i].bg = "failed"
                   /\ attempts'[i].sent = attempts[i].sent
                   /\ attempts'[i].queue = attempts[i].queue
                   /\ attempts'[i].observed = attempts[i].observed
                   /\ attempts'[i] # attempts[i] =>
                         attempts'[i].refused = attempts[i].refused + 1]_vars

C5_Witness ==
    \E i \in DOMAIN attempts :
        /\ attempts[i].phase = "connected"
        /\ attempts[i].bg = "failed"
        /\ attempts[i].refused > 0
        /\ spawnerErrors = {}

\* ---- C6 -------------------------------------------------------------------
\* C6: a built connection holds the name_server and dns_name given to build
\* and the client_config and connector of the builder it was built from; the
\* step that builds changes no builder's configuration and starts no attempt,
\* allocation, task or handle.
C6_BuildFreezesStagedState ==
    /\ [](\A c \in DOMAIN conns :
             origin[c].op = "build" /\ origin[c].src \in DOMAIN builders =>
                /\ conns[c].name_server = origin[c].name_server
                /\ conns[c].dns_name = origin[c].dns_name
                /\ conns[c].client_config = builders[origin[c].src].client_config
                /\ conns[c].connector = builders[origin[c].src].connector)
    /\ [][Len(conns') > Len(conns) =>
             /\ UNCHANGED <<attempts, nextArc, joinHandles, spawnerErrors>>
             /\ Len(builders') = Len(builders)
             /\ \A b \in DOMAIN builders :
                   /\ builders'[b].client_config = builders[b].client_config
                   /\ builders'[b].connector = builders[b].connector]_vars

C6_Witness ==
    \E c \in DOMAIN conns :
        /\ origin[c].op = "build"
        /\ origin[c].src \in DOMAIN builders
        /\ Len(conns[c].client_config.root_store) = 2
        /\ conns[c].connector = "reject_all"
        /\ conns[c].dns_name = "other.example"

\* ---- C7 -------------------------------------------------------------------
\* C7: a builder is built from at most once, a consumed builder never
\* changes again (no add_ca after build), and no operation changes the
\* fields of an existing HttpsClientConnection.
BuiltFrom(b) == {c \in DOMAIN conns : origin[c].op = "build" /\ origin[c].src = b}

C7_BuilderLifecycle ==
    /\ [](\A b \in DOMAIN builders :
             /\ Cardinality(BuiltFrom(b)) <= 1
             /\ builders[b].st = "consumed" <=> BuiltFrom(b) # {})
    /\ [][/\ \A b \in DOMAIN builders :
                builders[b].st # "staged" => builders'[b] = builders[b]
          /\ \A c \in DOMAIN conns : conns'[c] = conns[c]]_vars

C7_Witness ==
    /\ \E b \in DOMAIN builders :
          /\ builders[b].st = "consumed"
          /\ Len(builders[b].client_config.root_store) > 0
    /\ Len(conns) >= 2
    /\ Len(attempts) > 0

\* ---- C8 -------------------------------------------------------------------
\* C8: add_ca appends the certificate to the builder's trust store; a
\* certificate that does not parse aborts instead: the builder that was
\* handed one is aborted, never left staged with an error to look at, and no
\* trust store of a builder, connection or attempt holds such a certificate.
C8_AddCaInsertsOrAborts ==
    /\ [](/\ \A b \in DOMAIN builders : WellFormed(builders[b].client_config.root_store)
          /\ \A c \in DOMAIN conns : WellFormed(conns[c].client_config.root_store)
          /\ \A i \in DOMAIN attempts : WellFormed(attempts[i].client_config.root_store)
          /\ \A b \in DOMAIN builders : builders[b].st = "aborted" <=> b \in badAdds)
    /\ [][\A b \in DOMAIN builders :
             builders'[b].client_config # builders[b].client_config =>
                \E ca \in Certificates :
                    /\ ca.parses
                    /\ builders'[b].client_config.root_store
                          = Append(builders[b].client_config.root_store, ca)]_vars

C8_Witness ==
    \E b \in DOMAIN builders :
        /\ b \in badAdds
        /\ builders[b].st = "aborted"
        /\ Len(builders[b].client_config.root_store) > 0

\* ---- C9 -------------------------------------------------------------------
\* C9: every attempt of new_stream targets the name_server and dns_name of
\* its connection with a copy of that connection's configuration and
\* connector, whatever was called before or since; no two attempts hold the
\* same configuration allocation.
C9_FreshCloneEachCall ==
    /\ \A i \in DOMAIN attempts :
          LET a == attempts[i]
          IN  a.kind = "https" =>
                /\ a.conn \in DOMAIN conns
                /\ a.addr = conns[a.conn].name_server
                /\ a.dns_name = conns[a.conn].dns_name
                /\ a.client_config = conns[a.conn].client_config
                /\ a.connector = conns[a.conn].connector
    /\ \A i, j \in DOMAIN attempts : i # j => attempts[i].arc # attempts[j].arc
    /\ \A c \in DOMAIN conns :
          origin[c].op = "clone" => conns[c] = conns[origin[c].src]

C9_Witness ==
    /\ Len(conns) = 2
    /\ origin[2].op = "clone"
    /\ Len(conns[1].client_config.root_store) > 0
    /\ Len(attempts) = 2
    /\ attempts[1].conn = 1
    /\ attempts[2].conn = 1

\* ---- C10 ------------------------------------------------------------------
\* C10: what new_stream starts does not depend on the signer: calls on the
\* same connection target the same address, name, configuration and
\* connector whether a signer is passed or not, and under the same
\* environment behaviour they end in the same outcome.
C10_SignerIgnored ==
    /\ \A c \in DOMAIN conns : \A signer \in Signers :
          Target(new_stream(conns[c], signer, nextArc))
             = Target(new_stream(conns[c], "None", nextArc))
    /\ \A i, j \in DOMAIN attempts :
          (attempts[i].kind = "https" /\ attempts[j].kind = "https"
             /\ attempts[i].conn = attempts[j].conn) =>
                /\ Target(attempts[i]) = Target(attempts[j])
                /\ (attempts[i].tcp = attempts[j].tcp
                      /\ attempts[i].cert = attempts[j].cert
                      /\ Resolved(attempts[i]) /\ Resolved(attempts[j]))
                      => attempts[i].phase = attempts[j].phase

C10_Witness ==
    \E i, j \in DOMAIN attempts :
        /\ attempts[i].conn = attempts[j].conn
        /\ attempts[i].signer = "None"
        /\ attempts[j].signer = "sig0"
        /\ attempts[i].phase = "connected"
        /\ attempts[j].phase = "connected"
====
